---- MODULE Spec2Model ----
(***************************************************************************)
(* Model of src/app.py: a Streamlit script that fetches the current        *)
(* Bitcoin price, simulates geometric-Brownian-motion price paths, and     *)
(* shows summary statistics (mean path, expected return, 5th percentile)   *)
(* before offering an Excel export.  The whole pipeline runs inside one    *)
(* try/except (lines 74-159).                                              *)
(*                                                                         *)
(* Numbers.  Prices are numpy float64 values.  The model keeps the         *)
(* structure of binary floating point (a significand of Precision bits,    *)
(* round-to-nearest-even after every operation, NaN for 0/0) and scales    *)
(* the significand down from 53 bits.  The exponent range is unbounded     *)
(* (no overflow or underflow).                                             *)
(*                                                                         *)
(* The argument of np.exp on line 95 is kept on a lattice of whole         *)
(* "ticks", one tick being ln(3/2): exp of k ticks is (3/2)^k, rounded.    *)
(* dt = 1/365 and sqrt(dt) are folded into the tick scale.                 *)
(*                                                                         *)
(* mu and sigma are held in hundredths: 0.05 is 5, 0.4 is 40, and so on.   *)
(*                                                                         *)
(* Sliders.  The two sliders start at 1 in the model (7 and 10 in the      *)
(* source) and end at MaxDays and MaxSims; neither can be 0.               *)
(*                                                                         *)
(* Runs.  Streamlit runs the script from the top on every widget change;   *)
(* np.random's state and the cached price outlive a run.                   *)
(***************************************************************************)
EXTENDS Integers, Sequences, FiniteSets, TLC

(* ------------------------------ bounds -------------------------------- *)

\* Significand bits of the model's floating point (float64: 53).
Precision == 4
\* Upper end of the "days" slider in the model (line 59: 7..90).
MaxDays == 2
\* Upper end of the "simulations" slider in the model (line 60: 10..500).
MaxSims == 3
\* Number of states of the pseudo-random generator behind np.random.
RngModulus == 16

(* --------------------------- integer helpers ------------------------- *)

Abs(n) == IF n < 0 THEN -n ELSE n

Sign(n) == IF n < 0 THEN -1 ELSE IF n > 0 THEN 1 ELSE 0

RECURSIVE Pow(_, _)
Pow(b, n) == IF n <= 0 THEN 1 ELSE b * Pow(b, n - 1)

Pow2(n) == Pow(2, n)

RECURSIVE BitLen(_)
BitLen(n) == IF n <= 0 THEN 0 ELSE 1 + BitLen(n \div 2)

Max(a, b) == IF a >= b THEN a ELSE b

Min(a, b) == IF a <= b THEN a ELSE b

(* --------------------------- floating point -------------------------- *)
\* A float is NaN, or m * 2^e with m = 0 (and e = 0) or
\* 2^(Precision-1) <= |m| < 2^Precision.

Flt(m, e) == [nan |-> FALSE, m |-> m, e |-> e]

NaN == [nan |-> TRUE, m |-> 0, e |-> 0]

Zero == Flt(0, 0)

\* The float nearest to M * 2^E (M any integer), ties to even.
Round(M, E) ==
    IF M = 0 THEN Zero
    ELSE LET a == Abs(M)
             k == BitLen(a) - Precision
         IN  IF k <= 0 THEN Flt(M * Pow2(-k), E + k)
             ELSE LET q    == a \div Pow2(k)
                      r    == a % Pow2(k)
                      half == Pow2(k - 1)
                      up   == r > half \/ (r = half /\ q % 2 = 1)
                      q1   == IF up THEN q + 1 ELSE q
                      over == q1 = Pow2(Precision)
                  IN  Flt(Sign(M) * (IF over THEN Pow2(Precision - 1) ELSE q1),
                          IF over THEN E + k + 1 ELSE E + k)

\* The float nearest to (N / D) * 2^E, D > 0: the quotient is taken with
\* two guard bits and a sticky bit for the remainder, then rounded.
RoundRat(N, D, E) ==
    IF N = 0 THEN Zero
    ELSE LET a  == Abs(N)
             s  == Max(0, Precision + 2 + BitLen(D) - BitLen(a))
             n2 == a * Pow2(s)
             q  == n2 \div D
             st == IF n2 % D = 0 THEN 0 ELSE 1
         IN  Round(Sign(N) * (2 * q + st), E - s - 1)

FromInt(n) == Round(n, 0)

FAdd(x, y) ==
    IF x.nan \/ y.nan THEN NaN
    ELSE LET e == Min(x.e, y.e)
         IN  Round(x.m * Pow2(x.e - e) + y.m * Pow2(y.e - e), e)

FNeg(x) == IF x.nan THEN NaN ELSE Flt(-x.m, x.e)

FSub(x, y) == FAdd(x, FNeg(y))

FMul(x, y) ==
    IF x.nan \/ y.nan THEN NaN
    ELSE IF x.m = 0 \/ y.m = 0 THEN Zero
    ELSE Round(x.m * y.m, x.e + y.e)

\* x / y.  A zero divisor arises only as S0 = 0, and then the dividend is
\* 0 as well: 0/0 is NaN (numpy warns and does not raise).
FDiv(x, y) ==
    IF x.nan \/ y.nan \/ y.m = 0 THEN NaN
    ELSE RoundRat(x.m * Sign(y.m), Abs(y.m), x.e - y.e)

\* x * n and x / n for a small integer n that float64 holds exactly.
FMulInt(x, n) == IF x.nan THEN NaN ELSE Round(x.m * n, x.e)

FDivInt(x, n) ==
    IF x.nan THEN NaN
    ELSE IF n = 0 THEN NaN
    ELSE RoundRat(x.m, n, x.e)

\* x < y (false when either is NaN).
FLess(x, y) ==
    /\ ~x.nan
    /\ ~y.nan
    /\ LET e == Min(x.e, y.e)
       IN  x.m * Pow2(x.e - e) < y.m * Pow2(y.e - e)

FPositive(x) == ~x.nan /\ x.m > 0

\* np.exp of k ticks: (3/2)^k, rounded.
FExp(k) ==
    IF k >= 0 THEN Round(Pow(3, k), -k)
    ELSE RoundRat(Pow2(-k), Pow(3, -k), 0)

(* ------------------------- numpy reductions -------------------------- *)

\* A float variable that has not been assigned yet.
Unset == [nan |-> TRUE, m |-> 0, e |-> -1]

\* Left-to-right sum of xs[1..n], rounded after every addition.
RECURSIVE SeqSum(_, _)
SeqSum(xs, n) ==
    IF n = 0 THEN Zero
    ELSE IF n = 1 THEN xs[1]
    ELSE FAdd(SeqSum(xs, n - 1), xs[n])

\* Column i of a list of rows (NaN where a row is too short).
Column(rows, i) ==
    [r \in 1..Len(rows) |-> IF i <= Len(rows[r]) THEN rows[r][i] ELSE NaN]

\* NpMeanAxis0 without the division (np.sum in place of np.mean).
NpSumAxis0(rows) ==
    IF Len(rows) = 0 THEN <<>>
    ELSE [i \in 1..Len(rows[1]) |-> SeqSum(Column(rows, i), Len(rows))]

\* np.mean(rows, axis=0): each column is summed row after row and the sum
\* is divided by the number of rows.
NpMeanAxis0(rows) ==
    IF Len(rows) = 0 THEN <<>>
    ELSE [i \in 1..Len(rows[1]) |->
             FDivInt(SeqSum(Column(rows, i), Len(rows)), Len(rows))]

\* np.mean of a flat list (summed in order for fewer than 8 elements).
NpMean(xs) ==
    IF Len(xs) = 0 THEN NaN ELSE FDivInt(SeqSum(xs, Len(xs)), Len(xs))

\* xs[1..n] in ascending order (a sorted copy; xs itself is not changed).
RECURSIVE Insert(_, _)
Insert(sorted, x) ==
    IF sorted = <<>> THEN <<x>>
    ELSE IF FLess(x, Head(sorted)) THEN <<x>> \o sorted
    ELSE <<Head(sorted)>> \o Insert(Tail(sorted), x)

RECURSIVE Sorted(_, _)
Sorted(xs, n) == IF n = 0 THEN <<>> ELSE Insert(Sorted(xs, n - 1), xs[n])

\* np.percentile(xs, 5), linear interpolation: the virtual index is
\* (n - 1) * 0.05; its whole part picks the lower neighbour and its
\* fraction t weights the step to the upper one: a + (b - a) * t, or
\* b - (b - a) * (1 - t) when t >= 0.5.
NpPercentile5(xs) ==
    IF Len(xs) = 0 THEN NaN
    ELSE LET n  == Len(xs)
             s  == Sorted(xs, n)
             lo == (n - 1) \div 20
             t  == RoundRat((n - 1) % 20, 20, 0)
         IN  IF lo + 2 > n THEN s[lo + 1]
             ELSE IF 2 * ((n - 1) % 20) < 20
             THEN FAdd(s[lo + 1], FMul(FSub(s[lo + 2], s[lo + 1]), t))
             ELSE FSub(s[lo + 2],
                       FMul(FSub(s[lo + 2], s[lo + 1]), FSub(FromInt(1), t)))

(* ------------------------------ inputs -------------------------------- *)

\* The radio's four styles (line 41), in the order of the source.
Modes == {"safe", "moderate", "go", "allin"}

\* mu and sigma of a style (lines 46-57), in hundredths.
Preset(mode) ==
    CASE mode = "safe"     -> [mu |-> 5,  sigma |-> 40]
      [] mode = "moderate" -> [mu |-> 15, sigma |-> 65]
      [] mode = "go"       -> [mu |-> 30, sigma |-> 90]
      [] OTHER             -> [mu |-> 50, sigma |-> 120]

\* The values of the two sliders (lines 59-60), scaled down to 1..Max.
DayChoices == 1..MaxDays

SimChoices == 1..MaxSims

\* Values data['Close'].iloc[-1] may hold (line 67).  Nothing in the
\* script checks the value, so 0 is among them.
PriceChoices == {0, 11, 14}

(* --------------------------- random source --------------------------- *)
\* np.random is a pseudo-random generator with process-wide state: every
\* call of np.random.normal advances the state and returns a value that
\* is a function of it.

Seeds == 0..(RngModulus - 1)

RngNext(s) == (5 * s + 3) % RngModulus

\* The shock returned in state s, in whole standard deviations.
RngNormal(s) == (s % 3) - 1

(* ----------------------------- line 95 -------------------------------- *)

\* (mu - 0.5 * sigma**2) * dt in ticks: 200*mu - sigma^2 is
\* mu - 0.5*sigma^2 in units of 1/20000.
DriftTicks(m, s) == (200 * m - s * s) \div 2000

\* sigma * np.sqrt(dt) in ticks per standard deviation.
VolTicks(s) == s \div 30

\* Exponent with sigma left out of the diffusion term.
ExponentNoSigma(m, s, shock) == DriftTicks(m, s) + shock

\* (mu - 0.5 * sigma**2) * dt + sigma * np.sqrt(dt) * shock
Exponent(m, s, shock) == DriftTicks(m, s) + VolTicks(s) * shock

\* NextPrice as the additive Euler step, prices[-1] * (1 + exponent).
NextPriceEuler(prev, m, s, shock) ==
    FAdd(prev, FMulInt(prev, DriftTicks(m, s) + VolTicks(s) * shock))

\* prices[-1] * np.exp(...)
NextPrice(prev, m, s, shock) == FMul(prev, FExp(Exponent(m, s, shock)))

(* ------------------------------- state -------------------------------- *)

VARIABLES
    risk_appetite,   \* the radio's selection (line 39)
    mu,              \* lines 46-57, in hundredths
    sigma,           \* lines 46-57, in hundredths
    days,            \* line 59
    simulations,     \* line 60
    rng,             \* state of np.random's generator
    rng_calls,       \* number of np.random.normal calls made in this run
    cache,           \* st.cache_data's entry for get_bitcoin_data (line 63)
    pc,              \* the statement the script runs next
    current_price,   \* line 75
    S0,              \* line 88
    price_paths,     \* line 89
    prices,          \* line 92
    sim_i,           \* the outer loop's counter (line 91)
    day_j,           \* the inner loop's counter (line 93)
    draw_log,        \* one entry per use of a shock (line 95)
    mean_path,       \* line 104
    final_prices,    \* line 120
    exp_return_pct,  \* line 121
    var_95,          \* line 122
    loss_95_pct,     \* line 123
    exc,             \* the statement that raised, or "none"
    ui,              \* what the page shows, in the order it was emitted
    kellyFraction,   \* summarizer's Kelly fraction, in hundredths
    expectedReturn,  \* summarizer's expected return, in hundredths
    recommendation   \* summarizer's label

params == <<risk_appetite, mu, sigma, days, simulations>>

sim_vars == <<S0, price_paths, prices, sim_i, day_j, draw_log, rng, rng_calls>>

stat_vars == <<mean_path, final_prices, exp_return_pct, var_95, loss_95_pct>>

ladder_vars == <<kellyFraction, expectedReturn, recommendation>>

vars ==
    <<params, sim_vars, stat_vars, ladder_vars, pc, current_price, cache, exc, ui>>

\* Every variable before the script's first statement has run.
Blank ==
    /\ rng_calls = 0
    /\ S0 = Unset
    /\ price_paths = <<>>
    /\ prices = <<>>
    /\ sim_i = 0
    /\ day_j = 0
    /\ draw_log = <<>>
    /\ mean_path = <<>>
    /\ final_prices = <<>>
    /\ exp_return_pct = Unset
    /\ var_95 = Unset
    /\ loss_95_pct = Unset
    /\ exc = "none"
    /\ ui = <<>>

NoLadder ==
    /\ kellyFraction = 0
    /\ expectedReturn = 0
    /\ recommendation = "none"

\* One run of the script: the sidebar's values are read (lines 39-60) and
\* the try block is about to start.
Init ==
    /\ risk_appetite \in Modes
    /\ mu = Preset(risk_appetite).mu
    /\ sigma = Preset(risk_appetite).sigma
    /\ days \in DayChoices
    /\ simulations \in SimChoices
    /\ rng \in Seeds
    /\ pc = "fetch"
    /\ current_price = Unset
    /\ cache = Unset
    /\ Blank
    /\ NoLadder

(* ------------------------------ actions ------------------------------- *)

\* Lines 63-68, 75: nothing is cached, get_bitcoin_data() runs and its
\* result is cached.
Fetch ==
    /\ pc = "fetch"
    /\ cache = Unset
    /\ \E v \in PriceChoices :
          /\ current_price' = FromInt(v)
          /\ cache' = FromInt(v)
    /\ pc' = "header"
    /\ UNCHANGED <<params, sim_vars, stat_vars, ladder_vars, exc, ui>>

\* Lines 63, 75: the cached result is returned.
FetchCached ==
    /\ pc = "fetch"
    /\ cache # Unset
    /\ current_price' = cache
    /\ pc' = "header"
    /\ UNCHANGED <<params, sim_vars, stat_vars, ladder_vars, cache, exc, ui>>

\* Line 75: get_bitcoin_data() raises (no network, or no rows so that
\* iloc[-1] fails); nothing is cached.
FetchFail ==
    /\ pc = "fetch"
    /\ cache = Unset
    /\ exc' = "fetch"
    /\ pc' = "except"
    /\ UNCHANGED <<params, sim_vars, stat_vars, ladder_vars, current_price,
                   cache, ui>>

\* Lines 78-81: the current price and the chosen mode are shown.
Header ==
    /\ pc = "header"
    /\ ui' = Append(ui, "price_metric")
    /\ pc' = "setup"
    /\ UNCHANGED <<params, sim_vars, stat_vars, ladder_vars, current_price, cache, exc>>

\* Lines 84-89.
Setup ==
    /\ pc = "setup"
    /\ S0' = current_price
    /\ price_paths' = <<>>
    /\ sim_i' = 0
    /\ pc' = "outer"
    /\ UNCHANGED <<params, prices, day_j, draw_log, rng, rng_calls,
                   stat_vars, ladder_vars, current_price, cache, exc, ui>>

\* Lines 91-92: the outer loop starts its next path.
OuterEnter ==
    /\ pc = "outer"
    /\ sim_i < simulations
    /\ prices' = <<S0>>
    /\ day_j' = 0
    /\ pc' = "inner"
    /\ UNCHANGED <<params, S0, price_paths, sim_i, draw_log, rng, rng_calls,
                   stat_vars, ladder_vars, current_price, cache, exc, ui>>

\* InnerStep with the shock drawn once per path, at its first step.
InnerStepSharedDraw ==
    /\ pc = "inner"
    /\ day_j < days
    /\ LET fresh == day_j = 0
           shock == IF fresh THEN RngNormal(rng)
                              ELSE draw_log[Len(draw_log)].z
           calls == IF fresh THEN rng_calls + 1 ELSE rng_calls
       IN  /\ rng' = IF fresh THEN RngNext(rng) ELSE rng
           /\ rng_calls' = calls
           /\ prices' = Append(prices,
                               NextPrice(prices[Len(prices)], mu, sigma, shock))
           /\ draw_log' = Append(draw_log,
                                 [path |-> sim_i + 1, step |-> day_j + 1,
                                  call |-> calls, z |-> shock])
    /\ day_j' = day_j + 1
    /\ UNCHANGED <<params, S0, price_paths, sim_i, stat_vars, ladder_vars,
                   pc, current_price, cache, exc, ui>>

\* Lines 93-96: one step of the inner loop.
InnerStep ==
    /\ pc = "inner"
    /\ day_j < days
    /\ LET shock == RngNormal(rng)
           price == NextPrice(prices[Len(prices)], mu, sigma, shock)
       IN  /\ rng' = RngNext(rng)
           /\ rng_calls' = rng_calls + 1
           /\ prices' = Append(prices, price)
           /\ draw_log' = Append(draw_log,
                                 [path |-> sim_i + 1, step |-> day_j + 1,
                                  call |-> rng_calls + 1, z |-> shock])
    /\ day_j' = day_j + 1
    /\ UNCHANGED <<params, S0, price_paths, sim_i, stat_vars, ladder_vars,
                   pc, current_price, cache, exc, ui>>

\* InnerExit with the inner loop one step short, range(days - 1).
InnerExitEarly ==
    /\ pc = "inner"
    /\ day_j >= days - 1
    /\ price_paths' = Append(price_paths, prices)
    /\ sim_i' = sim_i + 1
    /\ pc' = "outer"
    /\ UNCHANGED <<params, S0, prices, day_j, draw_log, rng, rng_calls,
                   stat_vars, ladder_vars, current_price, cache, exc, ui>>

\* Line 97: the inner loop is over and the path joins the ensemble.
InnerExit ==
    /\ pc = "inner"
    /\ day_j >= days
    /\ price_paths' = Append(price_paths, prices)
    /\ sim_i' = sim_i + 1
    /\ pc' = "outer"
    /\ UNCHANGED <<params, S0, prices, day_j, draw_log, rng, rng_calls,
                   stat_vars, ladder_vars, current_price, cache, exc, ui>>

\* OuterExit with the outer loop one path short, range(simulations - 1).
OuterExitEarly ==
    /\ pc = "outer"
    /\ sim_i >= simulations - 1
    /\ pc' = "plot"
    /\ UNCHANGED <<params, sim_vars, stat_vars, ladder_vars, current_price, cache, exc, ui>>

\* Line 91: range(simulations) is exhausted.
OuterExit ==
    /\ pc = "outer"
    /\ sim_i >= simulations
    /\ pc' = "plot"
    /\ UNCHANGED <<params, sim_vars, stat_vars, ladder_vars, current_price, cache, exc, ui>>

\* Lines 100-102: up to 50 paths become traces of the figure.
Plot ==
    /\ pc = "plot"
    /\ pc' = "mean"
    /\ UNCHANGED <<params, sim_vars, stat_vars, ladder_vars, current_price, cache, exc, ui>>

\* Lines 104-105.
MeanPath ==
    /\ pc = "mean"
    /\ mean_path' = NpMeanAxis0(price_paths)
    /\ pc' = "chart"
    /\ UNCHANGED <<params, sim_vars, final_prices, exp_return_pct, var_95,
                   loss_95_pct, ladder_vars, current_price, cache, exc, ui>>

\* Lines 107-118: the chart is drawn.
Chart ==
    /\ pc = "chart"
    /\ ui' = Append(ui, "chart")
    /\ pc' = "final"
    /\ UNCHANGED <<params, sim_vars, stat_vars, ladder_vars, current_price, cache, exc>>

\* FinalPrices taking each last element out of its path, p.pop().
FinalPricesPop ==
    /\ pc = "final"
    /\ final_prices' = [i \in 1..Len(price_paths) |->
                            price_paths[i][Len(price_paths[i])]]
    /\ price_paths' = [i \in 1..Len(price_paths) |->
                           SubSeq(price_paths[i], 1, Len(price_paths[i]) - 1)]
    /\ pc' = "exp_return"
    /\ UNCHANGED <<params, S0, prices, sim_i, day_j, draw_log, rng, rng_calls,
                   mean_path, exp_return_pct, var_95, loss_95_pct,
                   ladder_vars, current_price, cache, exc, ui>>

\* Line 120: final_prices = [p[-1] for p in price_paths]
FinalPrices ==
    /\ pc = "final"
    /\ final_prices' = [i \in 1..Len(price_paths) |->
                            price_paths[i][Len(price_paths[i])]]
    /\ pc' = "exp_return"
    /\ UNCHANGED <<params, sim_vars, mean_path, exp_return_pct, var_95,
                   loss_95_pct, ladder_vars, current_price, cache, exc, ui>>

\* Line 121.
ExpReturn ==
    /\ pc = "exp_return"
    /\ exp_return_pct' = FMulInt(FDiv(FSub(NpMean(final_prices), S0), S0), 100)
    /\ pc' = "var"
    /\ UNCHANGED <<params, sim_vars, mean_path, final_prices, var_95,
                   loss_95_pct, ladder_vars, current_price, cache, exc, ui>>

\* Line 122.
Var95 ==
    /\ pc = "var"
    /\ var_95' = NpPercentile5(final_prices)
    /\ pc' = "loss"
    /\ UNCHANGED <<params, sim_vars, mean_path, final_prices, exp_return_pct,
                   loss_95_pct, ladder_vars, current_price, cache, exc, ui>>

\* Line 123.
Loss95 ==
    /\ pc = "loss"
    /\ loss_95_pct' = FMulInt(FDiv(FSub(var_95, S0), S0), 100)
    /\ pc' = "metric_return"
    /\ UNCHANGED <<params, sim_vars, mean_path, final_prices, exp_return_pct,
                   var_95, ladder_vars, current_price, cache, exc, ui>>

\* Lines 125-126: the expected return is shown.
MetricReturn ==
    /\ pc = "metric_return"
    /\ ui' = Append(ui, "return_metric")
    /\ pc' = "metric_loss"
    /\ UNCHANGED <<params, sim_vars, stat_vars, ladder_vars, current_price, cache, exc>>

\* Line 127: the 5% worst-case loss is shown.
MetricLoss ==
    /\ pc = "metric_loss"
    /\ ui' = Append(ui, "loss_metric")
    /\ pc' = "export"
    /\ UNCHANGED <<params, sim_vars, stat_vars, ladder_vars, current_price, cache, exc>>

\* Lines 130-146: the workbook is written to the buffer.
Export ==
    /\ pc = "export"
    /\ pc' = "download"
    /\ UNCHANGED <<params, sim_vars, stat_vars, ladder_vars, current_price, cache, exc, ui>>

\* Line 139: pd.ExcelWriter(engine='openpyxl') raises (openpyxl is not
\* installed), or writing a sheet raises.
ExportFail ==
    /\ pc = "export"
    /\ exc' = "export"
    /\ pc' = "except"
    /\ UNCHANGED <<params, sim_vars, stat_vars, ladder_vars, current_price, cache, ui>>

\* Lines 149-154.
Download ==
    /\ pc = "download"
    /\ ui' = Append(ui, "download_button")
    /\ pc' = "warn"
    /\ UNCHANGED <<params, sim_vars, stat_vars, ladder_vars, current_price, cache, exc>>

\* Line 156.
Warning ==
    /\ pc = "warn"
    /\ ui' = Append(ui, "warning")
    /\ pc' = "done"
    /\ UNCHANGED <<params, sim_vars, stat_vars, ladder_vars, current_price, cache, exc>>

\* Lines 158-159: the one handler of the whole pipeline.
Except ==
    /\ pc = "except"
    /\ ui' = Append(ui, "error")
    /\ pc' = "done"
    /\ UNCHANGED <<params, sim_vars, stat_vars, ladder_vars, current_price, cache, exc>>

\* The user moves a widget and Streamlit runs the script again from the
\* top: the page and every name of the script start afresh, while the
\* process keeps np.random's state and the cache entry, unless its five
\* minutes are over.
Rerun ==
    /\ pc = "done"
    /\ risk_appetite' \in Modes
    /\ mu' = Preset(risk_appetite').mu
    /\ sigma' = Preset(risk_appetite').sigma
    /\ days' \in DayChoices
    /\ simulations' \in SimChoices
    /\ cache' \in {cache, Unset}
    /\ pc' = "fetch"
    /\ rng_calls' = 0
    /\ current_price' = Unset
    /\ S0' = Unset
    /\ price_paths' = <<>>
    /\ prices' = <<>>
    /\ sim_i' = 0
    /\ day_j' = 0
    /\ draw_log' = <<>>
    /\ mean_path' = <<>>
    /\ final_prices' = <<>>
    /\ exp_return_pct' = Unset
    /\ var_95' = Unset
    /\ loss_95_pct' = Unset
    /\ exc' = "none"
    /\ ui' = <<>>
    /\ UNCHANGED <<rng, ladder_vars>>

Next ==
    \/ Fetch
    \/ FetchCached
    \/ FetchFail
    \/ Header
    \/ Setup
    \/ OuterEnter
    \/ InnerStep
    \/ InnerExit
    \/ OuterExit
    \/ Plot
    \/ MeanPath
    \/ Chart
    \/ FinalPrices
    \/ ExpReturn
    \/ Var95
    \/ Loss95
    \/ MetricReturn
    \/ MetricLoss
    \/ Export
    \/ ExportFail
    \/ Download
    \/ Warning
    \/ Except
    \/ Rerun

Spec == Init /\ [][Next]_vars

(* ------------------- the path generator on its own -------------------- *)
\* Lines 87-97 as a function of their inputs: the same loop, started with
\* any drift, any volatility >= 0 and a positive start price.

GenMus == {-30, 0, 15, 50}

GenSigmas == {0, 40, 90}

GenInit ==
    /\ risk_appetite = "direct"
    /\ mu \in GenMus
    /\ sigma \in GenSigmas
    /\ days \in DayChoices
    /\ simulations \in SimChoices
    /\ rng \in Seeds
    /\ Blank
    /\ NoLadder
    /\ pc = "setup"
    /\ cache = Unset
    /\ \E v \in PriceChoices \ {0} : current_price = FromInt(v)

GenNext ==
    \/ Setup
    \/ OuterEnter
    \/ InnerStep
    \/ InnerExit
    \/ OuterExit

GenSpec == GenInit /\ [][GenNext]_vars

(* ----------------------- the recommendation ladder --------------------- *)
\* The summarizer's label as a function of the Kelly fraction and the
\* expected return, both in hundredths.

\* Largest Kelly fraction tried, in hundredths.
MaxKelly == 60
\* Largest expected return tried, either sign, in hundredths.
MaxReturn == 10

\* Recommendation with the cutoffs included in the upper rung.
RecommendationInclusive(kelly, ret) ==
    IF kelly >= 50 THEN "STRONG_BUY"
    ELSE IF kelly >= 10 THEN "BUY"
    ELSE IF ret <= -5 THEN "SELL_HEDGE"
    ELSE "HOLD_NEUTRAL"

Recommendation(kelly, ret) ==
    IF kelly > 50 THEN "STRONG_BUY"
    ELSE IF kelly > 10 THEN "BUY"
    ELSE IF ret < -5 THEN "SELL_HEDGE"
    ELSE "HOLD_NEUTRAL"

LadderInit ==
    /\ risk_appetite = "direct"
    /\ mu = 0
    /\ sigma = 0
    /\ days = 1
    /\ simulations = 1
    /\ rng = 0
    /\ pc = "summary"
    /\ current_price = Unset
    /\ cache = Unset
    /\ Blank
    /\ kellyFraction \in 0..MaxKelly
    /\ expectedReturn \in (-MaxReturn)..MaxReturn
    /\ recommendation = "none"

Recommend ==
    /\ pc = "summary"
    /\ recommendation' = Recommendation(kellyFraction, expectedReturn)
    /\ pc' = "done"
    /\ UNCHANGED <<params, sim_vars, stat_vars, kellyFraction, expectedReturn,
                   current_price, cache, exc, ui>>

LadderNext == Recommend

LadderSpec == LadderInit /\ [][LadderNext]_vars

(* ------------------------------ claims -------------------------------- *)

Range(f) == {f[i] : i \in DOMAIN f}

\* The statements that run after the generation loops have ended and
\* before the script ends.
AfterGeneration ==
    {"plot", "mean", "chart", "final", "exp_return", "var", "loss",
     "metric_return", "metric_loss", "export", "download", "warn"}

\* The statements that run after mean_path has been assigned.
AfterMean == AfterGeneration \ {"plot", "mean"}

\* The statements that run after the last statistic has been assigned.
AfterSummary == {"metric_return", "metric_loss", "export", "download", "warn"}

\* The statements that read the ensemble, or a list derived from it, to
\* compute a statistic.
Summarizing == {"mean", "final", "exp_return", "var", "loss"}

\* C1: the ensemble the loops leave behind holds exactly `simulations`
\* paths, every path has exactly days + 1 elements, and element 0 of
\* every path is S0 itself.
C1_EnsembleShape ==
    pc \in AfterGeneration =>
        /\ Len(price_paths) = simulations
        /\ \A p \in 1..Len(price_paths) :
              /\ Len(price_paths[p]) = days + 1
              /\ price_paths[p][1] = S0

C1_Witness ==
    /\ pc = "plot"
    /\ simulations >= 2
    /\ days >= 2
    /\ FPositive(S0)
    /\ price_paths[1][2] # S0

\* C2: with a positive start price every element of every path, finished
\* or still being built, is strictly positive.
C2_Positive ==
    FPositive(S0) =>
        /\ \A p \in 1..Len(price_paths) :
              \A i \in 1..Len(price_paths[p]) : FPositive(price_paths[p][i])
        /\ \A i \in 1..Len(prices) : FPositive(prices[i])

\* A path that has fallen below its start on each of at least two steps.
C2_Witness ==
    /\ pc = "plot"
    /\ FPositive(S0)
    /\ days >= 2
    /\ \E p \in 1..Len(price_paths) :
          /\ FLess(price_paths[p][2], price_paths[p][1])
          /\ FLess(price_paths[p][3], price_paths[p][2])

\* C3: a run whose path count or horizon is 0, or whose start price is
\* not positive, is rejected before any path is generated: no path is
\* started and no summary statistic is shown.
C3_InvalidRejected ==
    (simulations = 0 \/ days = 0 \/ (S0 # Unset /\ ~FPositive(S0))) =>
        /\ "return_metric" \notin Range(ui)
        /\ "loss_metric" \notin Range(ui)

\* C4: a run that reports an error has shown no summary statistic.
C4_NoSummaryWithError ==
    "error" \in Range(ui) =>
        /\ "return_metric" \notin Range(ui)
        /\ "loss_metric" \notin Range(ui)

\* C5: whenever a statistic is about to be computed the ensemble is
\* complete: all `simulations` paths are there, each with all its `days`
\* steps, and no path is left half built.
C5_SummaryComplete ==
    pc \in Summarizing =>
        /\ sim_i = simulations
        /\ Len(price_paths) = simulations
        /\ \A p \in 1..Len(price_paths) : Len(price_paths[p]) = days + 1
        /\ rng_calls = simulations * days

C5_Witness ==
    /\ pc = "final"
    /\ simulations >= 2
    /\ days >= 2
    /\ Len(mean_path) = days + 1

\* |x - y| <= n * u / (1 - n * u) * |y| with u = 2^-Precision: x is y
\* up to n roundings.
WithinRoundings(x, y, n) ==
    /\ ~x.nan
    /\ ~y.nan
    /\ n < Pow2(Precision)
    /\ LET e == Min(x.e, y.e)
           a == x.m * Pow2(x.e - e)
           b == y.m * Pow2(y.e - e)
       IN  Abs(a - b) * (Pow2(Precision) - n) <= n * Abs(b)

C8_MeanStartsAtS0 ==
    pc \in AfterMean => mean_path[1] = S0

\* C8 amended: the mean path starts at S0 up to the roundings of the
\* column sum and of the division by the number of paths, and exactly at
\* S0 when there are at most two paths.
C8_MeanStartNearS0 ==
    pc \in AfterMean =>
        /\ Len(mean_path) = days + 1
        /\ WithinRoundings(mean_path[1], S0, simulations)
        /\ (simulations <= 2 => mean_path[1] = S0)

C8_Witness ==
    /\ pc = "chart"
    /\ simulations >= 3
    /\ FPositive(S0)
    /\ mean_path[1] # S0

\* C9: computing the statistics leaves the ensemble as it was, and the
\* statistics the script holds are those a second computation over the
\* ensemble gives.
C9_SummaryPure ==
    /\ [][(pc \in Summarizing) => (price_paths' = price_paths)]_vars
    /\ [](pc \in AfterSummary =>
            LET finals == [i \in 1..Len(price_paths) |->
                              price_paths[i][Len(price_paths[i])]]
                var    == NpPercentile5(finals)
            IN  /\ mean_path = NpMeanAxis0(price_paths)
                /\ final_prices = finals
                /\ exp_return_pct
                      = FMulInt(FDiv(FSub(NpMean(finals), S0), S0), 100)
                /\ var_95 = var
                /\ loss_95_pct = FMulInt(FDiv(FSub(var, S0), S0), 100))

C9_Witness ==
    /\ pc = "metric_return"
    /\ simulations >= 2
    /\ days >= 2
    /\ FPositive(S0)
    /\ ~exp_return_pct.nan
    /\ FLess(var_95, S0)

\* C10: a finished generation has called the random source exactly
\* simulations * days times, every call has served exactly one
\* (path, step) pair and every pair has its own call, and each element of
\* a path is the element before it moved by that step's own draw.
C10_OneDrawPerStep ==
    pc \in AfterGeneration =>
        /\ rng_calls = simulations * days
        /\ Len(draw_log) = simulations * days
        /\ \A i, j \in 1..Len(draw_log) :
              i # j => /\ draw_log[i].call # draw_log[j].call
                       /\ <<draw_log[i].path, draw_log[i].step>>
                              # <<draw_log[j].path, draw_log[j].step>>
        /\ \A p \in 1..simulations : \A d \in 1..days :
              \E i \in 1..Len(draw_log) :
                  /\ draw_log[i].path = p
                  /\ draw_log[i].step = d
                  /\ draw_log[i].call \in 1..rng_calls
                  /\ price_paths[p][d + 1]
                         = NextPrice(price_paths[p][d], mu, sigma, draw_log[i].z)

C10_Witness ==
    /\ pc = "plot"
    /\ simulations >= 2
    /\ days >= 2
    /\ FPositive(S0)
    /\ \E i, j \in 1..Len(draw_log) : draw_log[i].z # draw_log[j].z

\* C6: the label is STRONG_BUY exactly when the Kelly fraction is above
\* 0.5; BUY exactly when it is above 0.1 and not above 0.5; SELL_HEDGE
\* exactly when it is not above 0.1 and the expected return is below
\* -0.05; HOLD_NEUTRAL exactly in the remaining case: one label for every
\* pair, the cutoffs themselves falling on the lower rung.
C6_Ladder ==
    pc = "done" /\ recommendation # "none" =>
        /\ recommendation
              \in {"STRONG_BUY", "BUY", "SELL_HEDGE", "HOLD_NEUTRAL"}
        /\ recommendation = "STRONG_BUY" <=> kellyFraction > 50
        /\ recommendation = "BUY"
              <=> (kellyFraction > 10 /\ kellyFraction <= 50)
        /\ recommendation = "SELL_HEDGE"
              <=> (kellyFraction <= 10 /\ expectedReturn < -5)
        /\ recommendation = "HOLD_NEUTRAL"
              <=> (kellyFraction <= 10 /\ expectedReturn >= -5)

\* Both lower cutoffs at once: Kelly fraction 0.1, expected return -0.05.
C6_Witness ==
    /\ pc = "done"
    /\ kellyFraction = 10
    /\ expectedReturn = -5
    /\ recommendation = "HOLD_NEUTRAL"

====
